---- MODULE Spec2Model ----
(***************************************************************************)
(* Session / payment lifecycle of the ChargeX backend.                     *)
(*                                                                         *)
(* Spec      : src/backend/simple_main.py, the single global              *)
(*             active_session with its transactions and agent_logs.        *)
(* SpecMain  : src/backend/main.py, the active_sessions dictionary keyed   *)
(*             by session id, with payment_history and the wall clock.     *)
(* SpecApp   : src/backend/app.py, its own active_sessions dictionary and  *)
(*             payment_history, with the wall clock.                       *)
(* SpecProvider : src/backend/payment.py, calls of                         *)
(*             payment_manager.verify_payment (PaymentManager, and the     *)
(*             mock simple_main falls back to).                            *)
(* SpecQuote : src/backend/payment.py, calls of                            *)
(*             payment_manager.get_payment_requirements.                   *)
(* SpecLog   : simple_main.py with every handler that writes agent_logs,   *)
(*             the /api/agent handlers included.                           *)
(* SpecPolled : simple_main.py's session handlers with a client that       *)
(*             keeps polling (weak fairness of the poll).                  *)
(* SpecAgent : src/backend/agent.py, ChargeXAgent.full_charging_flow       *)
(*             against a server whose replies are chosen freely.           *)
(* These are separate programs; each specification runs one of them and    *)
(* leaves the others' variables alone.                                     *)
(*                                                                         *)
(* Representation of the numbers (Python floats in the source):            *)
(*   - money is an integer number of hundredths (cents): round(x, 2) of    *)
(*     the source becomes rounding to the nearest integer cent, ties to    *)
(*     even as Python does (Round2);                                       *)
(*   - requested energy is an integer number of kWh;                       *)
(*   - delivered energy is an integer number of 1/EnergyDen kWh, where     *)
(*     EnergyDen = 10800/60 = 180: every value the handlers compute,       *)
(*     kwh_total * 60/10800 and kwh_total/10800 * 300, is a multiple of    *)
(*     it, so the arithmetic below is exact;                               *)
(*   - time stamps (startTime, endTime, chargingStartTime) are Now or      *)
(*     None: no handler reads their value;                                 *)
(*   - in main.py amount_kwh is an integer number of 1/1000 kWh, the       *)
(*     stored kwh_delivered (rounded to two decimals by the source) an     *)
(*     integer number of 1/100 kWh, and time.time() a whole number of      *)
(*     seconds.                                                            *)
(* Ties of round() are decided on the exact decimal value; no value the    *)
(* claims below turn on is a tie.                                          *)
(* main.py's session handlers are modelled as written; as committed the    *)
(* file has an else branch holding only a comment in agent_action.         *)
(***************************************************************************)
EXTENDS Integers, Sequences, FiniteSets, TLC

\* simple_main.py: the provider it imported, its globals, and the reply to the
\* last request (status is the HTTP status).
VARIABLES payment_manager, active_session, transactions, agent_logs, response
\* What the last GET /api/session/current of the stored session returned while
\* it was charging (None before the first): the values a client has observed.
VARIABLES last_poll
\* main.py: its globals active_sessions and payment_history, the clock
\* time.time() reads (whole seconds), and the reply to the last request.
VARIABLES main_sessions, main_payment_history, main_time, main_response

\* app.py: its globals active_sessions and payment_history, the clock
\* time.time() reads (whole seconds), and the reply to the last request.
VARIABLES app_sessions, app_payment_history, app_time, app_response
\* payment.py: what the calls of payment_manager.verify_payment made so far
\* returned, in order, and the number of uuid4 / urandom values drawn; what
\* the calls of payment_manager.get_payment_requirements returned, in order.
VARIABLES provider_results, uuid_count, provider_quotes
\* agent.py: a ChargeXAgent running full_charging_flow. agent_pc is the call
\* the coroutine makes next, asyncio_bound whether the name asyncio is bound
\* in the module (it is imported under __main__ only), agent_stations the
\* list discover_stations returned, active_station and current_session the
\* object's fields, agent_result the dict the flow returns, agent_polls the
\* number of status requests made and agent_observed the status the last
\* one returned.
VARIABLES agent_pc, asyncio_bound, agent_stations, active_station, current_session,
          agent_result, agent_polls, agent_observed

simple_vars == <<payment_manager, active_session, transactions, agent_logs, response,
                 last_poll>>
main_vars == <<main_sessions, main_payment_history, main_time, main_response>>
app_vars == <<app_sessions, app_payment_history, app_time, app_response>>
provider_vars == <<provider_results, uuid_count, provider_quotes>>
agent_vars == <<agent_pc, asyncio_bound, agent_stations, active_station, current_session,
                agent_result, agent_polls, agent_observed>>
vars == <<simple_vars, main_vars, app_vars, provider_vars, agent_vars>>

\* Python's None; optional values (a session, a time stamp, a tx hash) are
\* records, so that they compare with it.
None == [none |-> TRUE]
\* time.strftime(...): a time stamp whose value no handler reads.
Now == [time |-> "gmtime"]
\* f"0x{os.urandom(32).hex()}" for the h-th of the values urandom can give.
TxHash(h) == [hex |-> h]

\* ------------------------------------------------------------------ bounds
\* The activity log is unbounded in the source; the model stops when it
\* holds MaxLog entries.
MaxLog == 4
\* random.randint(1000, 9999) draws one of 9000 ids; the model draws one of
\* NumSessionIds, so that two sessions can get the same id.
NumSessionIds == 2
\* os.urandom(32) draws one of 2^256 hashes; the model draws one of NumTxHashes.
NumTxHashes == 1

\* main.py: the clock advances ClockStep seconds at a time, up to MaxClock;
\* active_sessions holds at most MaxMainSessions ids and payment_history at
\* most MaxMainPayments records.
ClockStep == 120
MaxClock == 240
MaxMainSessions == 2
MaxMainPayments == 1

\* payment.py: the model makes at most MaxVerifyCalls calls of verify_payment,
\* with proofs that carry one of NumProofHashes caller-chosen hashes or none.
MaxVerifyCalls == 3
NumProofHashes == 2
\* and at most MaxQuoteCalls calls of get_payment_requirements.
MaxQuoteCalls == 2
\* At most MaxAgentCalls calls of the /api/agent handlers are logged.
MaxAgentCalls == 1
\* agent.py: discover_stations returns at most MaxStations stations, and the
\* monitor makes at most MaxMonitorPolls status requests.
MaxStations == 3
MaxMonitorPolls == 3

\* app.py: the clock advances AppClockStep seconds at a time, up to
\* AppMaxClock; active_sessions holds at most MaxAppSessions ids and
\* payment_history at most MaxAppPayments records.
AppClockStep == 600
AppMaxClock == 1800
MaxAppSessions == 1
MaxAppPayments == 2

\* --------------------------------------------------------- program constants
MinSessionId == 1000
FULL_CHARGE_SECONDS == 10800
elapsed_increase == 300
INITIAL_SECONDS == 60
\* Mock USDC price per kWh, in cents (0.25).
MOCK_RATE == 25
\* PaymentManager.charging_rate, CHARGING_RATE_PER_KWH default, in cents (0.35).
CHARGING_RATE == 35
\* app.py: "Assume charging takes 30 minutes"
APP_CHARGE_SECONDS == 1800
\* agent.py: float("inf"), the sort key of a station without rate_crypto;
\* above every rate.
Infinity == 1000000

SessionIds == MinSessionId .. (MinSessionId + NumSessionIds - 1)
TxHashes == 1 .. NumTxHashes

\* The request bodies the model submits: a subset of the catalog's ids and one
\* id that is not in it; energy amounts (data.amount is an unvalidated float).
RequestStationIds == {"station-001", "station-002", "station-003", "station-999"}
RequestAmounts == {-10, 0, 10}

\* -------------------------------------------------------------- arithmetic
\* Energy is counted in 1/EnergyDen kWh.
EnergyDen == FULL_CHARGE_SECONDS \div INITIAL_SECONDS

\* n/d rounded to the nearest integer, ties to the even one (Python's round),
\* for d > 0; \div and % are floor division and its remainder.
RoundDiv(n, d) ==
    LET q == n \div d
        r == n % d
    IN  IF 2 * r < d THEN q
        ELSE IF 2 * r > d THEN q + 1
        ELSE IF q % 2 = 0 THEN q ELSE q + 1

\* round(kwh * price, 2) in cents, for kwh in 1/EnergyDen kWh and price in cents.
Round2(kwh, price) == RoundDiv(kwh * price, EnergyDen)

\* ------------------------------------------------------------ station data
stations ==
    << [id |-> "station-001", name |-> "ChargeX Indiranagar", price |-> 2050,
        available |-> TRUE, rate_crypto |-> 25, power_kw |-> 150],
       [id |-> "station-002", name |-> "ChargeX Whitefield Hub", price |-> 2200,
        available |-> TRUE, rate_crypto |-> 27, power_kw |-> 120],
       [id |-> "station-003", name |-> "ChargeX Electronic City", price |-> 1950,
        available |-> FALSE, rate_crypto |-> 24, power_kw |-> 50],
       [id |-> "station-004", name |-> "ChargeX Koramangala", price |-> 2100,
        available |-> TRUE, rate_crypto |-> 26, power_kw |-> 100],
       [id |-> "station-005", name |-> "ChargeX MG Road", price |-> 2350,
        available |-> TRUE, rate_crypto |-> 29, power_kw |-> 200],
       [id |-> "station-006", name |-> "ChargeX Hebbal", price |-> 2150,
        available |-> TRUE, rate_crypto |-> 26, power_kw |-> 150],
       [id |-> "station-007", name |-> "ChargeX Jayanagar", price |-> 2000,
        available |-> TRUE, rate_crypto |-> 24, power_kw |-> 100] >>

\* next((s for s in stations if s["id"] == station_id), None)
FindStation(catalog, station_id) ==
    LET hits == {i \in 1..Len(catalog) : catalog[i].id = station_id}
    IN  IF hits = {} THEN None
        ELSE catalog[CHOOSE i \in hits : \A j \in hits : i <= j]

\* The seeded settlement records (station, amount in cents, energy in kWh).
SeedTransactions ==
    << [id |-> "tx-001", station |-> "Downtown Supercharger", amount |-> 1225,
        energy |-> 35 * EnergyDen, status |-> "completed", seq |-> 0],
       [id |-> "tx-002", station |-> "West Side EV Station", amount |-> 950,
        energy |-> 25 * EnergyDen, status |-> "completed", seq |-> 0],
       [id |-> "tx-003", station |-> "Bay Area Fast Charging", amount |-> 1480,
        energy |-> 37 * EnergyDen, status |-> "completed", seq |-> 0] >>

\* --------------------------------------------------------- payment provider
\* What get_payment_requirements hands back: raised (an exception left the
\* call), the keys simple_main reads (payment_required is a key of the mock's
\* dict only; PaymentManager's dict has recipient and network at top level).
QuoteRaised == [raised |-> TRUE, has_payment_required |-> FALSE, amount |-> 0,
                recipient |-> "", network |-> ""]

\* MockPaymentManager.get_payment_requirements
MockGetPaymentRequirements(kwh_amount, station_id) ==
    [raised |-> FALSE, has_payment_required |-> TRUE,
     amount |-> RoundDiv(kwh_amount * MOCK_RATE, 1),
     recipient |-> "0x1234567890abcdef1234567890abcdef12345678",
     network |-> "Base-Sepolia"]

\* A get_payment_requirements that falls back whatever enable_fallback is.
PMGetPaymentRequirementsAlwaysFallsBack(pm, kwh_amount, station_id, live_fails) ==
    [raised |-> FALSE, has_payment_required |-> FALSE,
     amount |-> RoundDiv(kwh_amount * CHARGING_RATE, 1),
     recipient |-> station_id,
     network |-> "Base-Sepolia"]

\* A get_payment_requirements whose fallback names the demo wallet as the
\* recipient instead of the station's address.
PMGetPaymentRequirementsDemoRecipient(pm, kwh_amount, station_id, live_fails) ==
    LET amount == RoundDiv(kwh_amount * CHARGING_RATE, 1)
        quote  == [raised |-> FALSE, has_payment_required |-> FALSE,
                   amount |-> amount,
                   recipient |-> station_id,
                   network |-> "Base-Sepolia"]
    IN  IF pm.HAS_X402 /\ ~live_fails THEN quote
        ELSE IF ~pm.enable_fallback THEN QuoteRaised
        ELSE [quote EXCEPT !.recipient = "0x1234567890123456789012345678901234567890"]

\* PaymentManager.get_payment_requirements; live_fails: the x402 SDK call
\* (PaymentRequest, create_payment_url) raised.
PMGetPaymentRequirements(pm, kwh_amount, station_id, live_fails) ==
    LET amount == RoundDiv(kwh_amount * CHARGING_RATE, 1)
        quote  == [raised |-> FALSE, has_payment_required |-> FALSE,
                   amount |-> amount,
                   recipient |-> station_id,  \* "0x" + station_id.zfill(40)
                   network |-> "Base-Sepolia"]
    IN  IF pm.HAS_X402 /\ ~live_fails THEN quote
        ELSE IF ~pm.enable_fallback THEN QuoteRaised
        ELSE quote

\* payment_manager.get_payment_requirements(kwh_amount=..., station_id=...)
GetPaymentRequirements(pm, kwh_amount, station_id, live_fails) ==
    IF pm.class = "MockPaymentManager"
    THEN MockGetPaymentRequirements(kwh_amount, station_id)
    ELSE PMGetPaymentRequirements(pm, kwh_amount, station_id, live_fails)

\* Whether the x402 SDK call can raise: only PaymentManager with the SDK
\* imported makes one.
LiveOutcomes(pm) ==
    IF pm.class = "PaymentManager" /\ pm.HAS_X402 THEN BOOLEAN ELSE {FALSE}

\* The payment_manager simple_main ends up with: payment.payment_manager when
\* the import works, the mock otherwise.
\* x402_verification_key is os.getenv("X402_VERIFICATION_KEY"): unset, a key
\* that starts with "demo", any other key.
VerificationKeys == {"", "demo-key", "live-key"}
StartsWithDemo(key) == key = "demo-key"

MockPaymentManager ==
    [class |-> "MockPaymentManager", HAS_X402 |-> FALSE, enable_fallback |-> FALSE,
     x402_verification_key |-> ""]

PaymentManagers ==
    {MockPaymentManager}
    \cup [class : {"PaymentManager"}, HAS_X402 : BOOLEAN, enable_fallback : BOOLEAN,
          x402_verification_key : VerificationKeys]

\* ------------------------------------------------- verify_payment (provider)
\* The tx_hash values: the n-th value uuid4 / urandom generates (128 and 256
\* random bits: values generated by different calls differ), the k-th of the
\* values a caller may put in its proof, the hash the x402 SDK reports.
Generated(n) == [generated |-> n]
ProofHash(k) == [given |-> k]
ProofHashes == {ProofHash(k) : k \in 1..NumProofHashes}

\* payment_data["proof"]: a dict with or without the key "tx_hash" (a
\* payment_data without "proof" reads as the empty dict).
Proofs == [tx_hash : {None} \cup ProofHashes]

\* What PaymentVerification(...).verify() does: raises, answers not verified,
\* answers verified with the transaction hash it found.
LiveRaises == [kind |-> "raises", transaction_hash |-> None]
LiveRejects == [kind |-> "rejected", transaction_hash |-> None]
LiveVerifies(h) == [kind |-> "verified", transaction_hash |-> TxHash(h)]

\* if HAS_X402 and self.x402_verification_key and not ...startswith("demo")
UsesLiveVerification(pm) ==
    /\ pm.HAS_X402
    /\ pm.x402_verification_key # ""
    /\ ~StartsWithDemo(pm.x402_verification_key)

\* The outcomes of the SDK call a verify_payment of pm can meet: without the
\* live path no call is made and line 207 raises.
LiveVerdicts(pm) ==
    IF pm.class = "PaymentManager" /\ UsesLiveVerification(pm)
    THEN {LiveRaises, LiveRejects} \cup {LiveVerifies(h) : h \in TxHashes}
    ELSE {LiveRaises}

\* The dict verify_payment returns (verified, tx_hash, whether it has the key
\* "error"), whether an exception left the call, and how many values the call
\* generated.
VerifyResult(verified, tx_hash, error, drawn) ==
    [raised |-> FALSE, verified |-> verified, tx_hash |-> tx_hash, error |-> error,
     drawn |-> drawn]

\* MockPaymentManager.verify_payment; n values have been generated before.
MockVerifyPayment(proof, n) == VerifyResult(TRUE, Generated(n + 1), FALSE, 1)

\* A verify_payment whose fallback also takes over when the SDK answered
\* "not verified".
PMVerifyPaymentRejectionFallsBack(pm, proof, live, n) ==
    IF UsesLiveVerification(pm) /\ live.kind = "verified"
    THEN VerifyResult(TRUE, live.transaction_hash, FALSE, 0)
    ELSE IF ~pm.enable_fallback
    THEN VerifyResult(FALSE, None, TRUE, 0)
    ELSE VerifyResult(TRUE,
                      IF proof.tx_hash # None THEN proof.tx_hash ELSE Generated(n + 1),
                      FALSE, 1)

\* PaymentManager.verify_payment; live is what the SDK call does if it is made,
\* n the number of values generated before. The default of
\* .get("tx_hash", f"0x{uuid.uuid4().hex}") is evaluated on every call that
\* gets there.
PMVerifyPayment(pm, proof, live, n) ==
    IF UsesLiveVerification(pm) /\ live.kind = "verified"
    THEN VerifyResult(TRUE, live.transaction_hash, FALSE, 0)
    ELSE IF UsesLiveVerification(pm) /\ live.kind = "rejected"
    THEN VerifyResult(FALSE, None, TRUE, 0)
    ELSE IF ~pm.enable_fallback
    THEN VerifyResult(FALSE, None, TRUE, 0)
    ELSE VerifyResult(TRUE,
                      IF proof.tx_hash # None THEN proof.tx_hash ELSE Generated(n + 1),
                      FALSE, 1)

\* payment_manager.verify_payment(payment_data)
ProviderVerifyPayment(pm, proof, live, n) ==
    IF pm.class = "MockPaymentManager"
    THEN MockVerifyPayment(proof, n)
    ELSE PMVerifyPayment(pm, proof, live, n)

\* ------------------------------------------------------------ ghost values
\* The number of sessions created so far: every successful start_session
\* appends one session_start entry, and the log is never cut.
Started == Cardinality({i \in 1..Len(agent_logs) : agent_logs[i].action = "session_start"})

Reply(op, status) == [op |-> op, status |-> status]

\* An agent_logs entry: action, what details names (a station or a tx hash)
\* and, as a ghost, the ordinal of the session it is about.
LogEntry(action, details, seq) == [action |-> action, details |-> details, seq |-> seq]
AtStation(name) == [station |-> name]

\* A transactions entry; its id, tx-{random.randint(1000, 9999)}, is never read.
Transaction(session) ==
    [id |-> "tx-random", station |-> session.stationName,
     amount |-> session.currentAmount, energy |-> session.currentEnergy,
     status |-> "completed", seq |-> session.seq]

\* kwh_total * seconds / 10800 kWh, in 1/EnergyDen kWh (seconds is 60 or 300).
KwhIn(kwh_total, seconds) == kwh_total * (seconds \div INITIAL_SECONDS)
\* kwh_total kWh in 1/EnergyDen kWh.
Kwh(kwh_total) == kwh_total * EnergyDen

\* ----------------------------------------------------------------- Init
InitSimple(managers) ==
    /\ payment_manager \in managers
    /\ active_session = None
    /\ transactions = SeedTransactions
    /\ agent_logs = << >>
    /\ response = Reply("none", 0)
    /\ last_poll = None

\* ------------------------------------------------------ POST /api/session/start
NewSession(station, session_id, kwh_estimate, payment_req, seq) ==
    [id |-> session_id,
     stationId |-> station.id,
     stationName |-> station.name,
     startTime |-> Now,
     price |-> station.price,
     status |-> "awaiting_payment",
     currentEnergy |-> 0,
     currentAmount |-> 0,
     kwh_delivered |-> 0,
     kwh_total |-> kwh_estimate,
     time_elapsed |-> 0,
     payment |-> [amount |-> payment_req.amount,
                  recipient |-> payment_req.recipient,
                  chain |-> payment_req.network,
                  tx_hash |-> None],
     chargingStartTime |-> None,
     endTime |-> None,
     seq |-> seq]

start_session(station_id, amount, session_id, live_fails) ==
    LET station == FindStation(stations, station_id) IN
    IF station = None
    THEN /\ response' = Reply("start_session", 404)
         /\ UNCHANGED <<payment_manager, active_session, transactions, agent_logs>>
    ELSE IF ~station.available
    THEN /\ response' = Reply("start_session", 400)
         /\ UNCHANGED <<payment_manager, active_session, transactions, agent_logs>>
    ELSE LET payment_req ==
                 GetPaymentRequirements(payment_manager, amount, station_id, live_fails)
         IN  IF payment_req.raised \/ ~payment_req.has_payment_required
             THEN \* RuntimeError of the provider, or KeyError on
                  \* payment_req["payment_required"]: an unhandled exception
                  /\ response' = Reply("start_session", 500)
                  /\ UNCHANGED <<payment_manager, active_session, transactions, agent_logs>>
             ELSE /\ active_session' =
                         NewSession(station, session_id, amount, payment_req, Started + 1)
                  /\ agent_logs' = Append(agent_logs,
                         LogEntry("session_start", AtStation(station.name), Started + 1))
                  /\ response' = Reply("start_session", 200)
                  /\ UNCHANGED <<payment_manager, transactions>>

\* ---------------------------------------------------- GET /api/session/current
\* A poll that took the tick's energy for the energy delivered so far.
ProgressTickOnly(session) ==
    LET kwh_increase == KwhIn(session.kwh_total, elapsed_increase)
    IN  [session EXCEPT
            !.time_elapsed = @ + elapsed_increase,
            !.currentEnergy = kwh_increase,
            !.kwh_delivered = kwh_increase,
            !.currentAmount = Round2(kwh_increase, session.price)]

\* A poll that adds nothing.
ProgressStalled(session) == session

\* The session after one poll while charging, before the completion test.
Progress(session) ==
    LET kwh_increase == KwhIn(session.kwh_total, elapsed_increase)
        delivered    == session.kwh_delivered + kwh_increase
    IN  [session EXCEPT
            !.time_elapsed = @ + elapsed_increase,
            !.currentEnergy = @ + kwh_increase,
            !.kwh_delivered = delivered,
            !.currentAmount = Round2(delivered, session.price)]

\* A completion that did not bring kwh_delivered back to kwh_total.
CompleteUnclamped(session) ==
    [session EXCEPT
        !.status = "completed",
        !.time_elapsed = FULL_CHARGE_SECONDS,
        !.endTime = Now]

\* A completion that leaves the session charging.
CompleteStillCharging(session) ==
    [session EXCEPT
        !.kwh_delivered = Kwh(session.kwh_total),
        !.currentEnergy = Kwh(session.kwh_total),
        !.time_elapsed = FULL_CHARGE_SECONDS,
        !.endTime = Now]

\* The branch taken when kwh_delivered >= kwh_total.
Complete(session) ==
    [session EXCEPT
        !.kwh_delivered = Kwh(session.kwh_total),
        !.currentEnergy = Kwh(session.kwh_total),
        !.status = "completed",
        !.time_elapsed = FULL_CHARGE_SECONDS,
        !.endTime = Now]

\* A poll that advances every session that is not completed, paid or not.
get_current_session_any_status ==
    IF active_session = None
    THEN /\ response' = Reply("get_current_session", 404)
         /\ UNCHANGED <<payment_manager, active_session, transactions, agent_logs>>
    ELSE /\ response' = Reply("get_current_session", 200)
         /\ UNCHANGED payment_manager
         /\ IF active_session.status # "completed"
            THEN LET session == Progress(active_session) IN
                 IF session.kwh_delivered >= Kwh(session.kwh_total)
                 THEN /\ active_session' = Complete(session)
                      /\ transactions' = Append(transactions, Transaction(Complete(session)))
                      /\ agent_logs' = Append(agent_logs,
                             LogEntry("session_complete", AtStation(session.stationName),
                                      session.seq))
                 ELSE /\ active_session' = session
                      /\ UNCHANGED <<transactions, agent_logs>>
            ELSE UNCHANGED <<active_session, transactions, agent_logs>>

get_current_session ==
    IF active_session = None
    THEN /\ response' = Reply("get_current_session", 404)
         /\ UNCHANGED <<payment_manager, active_session, transactions, agent_logs>>
    ELSE /\ response' = Reply("get_current_session", 200)
         /\ UNCHANGED payment_manager
         /\ IF active_session.status = "charging"
            THEN LET session == Progress(active_session) IN
                 IF session.kwh_delivered >= Kwh(session.kwh_total)
                 THEN /\ active_session' = Complete(session)
                      /\ transactions' = Append(transactions, Transaction(Complete(session)))
                      /\ agent_logs' = Append(agent_logs,
                             LogEntry("session_complete", AtStation(session.stationName),
                                      session.seq))
                 ELSE /\ active_session' = session
                      /\ UNCHANGED <<transactions, agent_logs>>
            ELSE UNCHANGED <<active_session, transactions, agent_logs>>

\* ------------------------------------------------------ POST /api/session/stop
\* A stop that starts the log afresh with its own entry.
stop_session_restarting_log ==
    IF active_session = None
    THEN /\ response' = Reply("stop_session", 404)
         /\ UNCHANGED <<payment_manager, active_session, transactions, agent_logs>>
    ELSE LET completed_session ==
                 [active_session EXCEPT !.status = "completed", !.endTime = Now]
         IN  /\ transactions' = Append(transactions, Transaction(completed_session))
             /\ agent_logs' =
                    <<LogEntry("session_stop", AtStation(completed_session.stationName),
                               completed_session.seq)>>
             /\ active_session' = None
             /\ response' = Reply("stop_session", 200)
             /\ UNCHANGED payment_manager

stop_session ==
    IF active_session = None
    THEN /\ response' = Reply("stop_session", 404)
         /\ UNCHANGED <<payment_manager, active_session, transactions, agent_logs>>
    ELSE LET completed_session ==
                 [active_session EXCEPT !.status = "completed", !.endTime = Now]
         IN  /\ transactions' = Append(transactions, Transaction(completed_session))
             /\ agent_logs' = Append(agent_logs,
                    LogEntry("session_stop", AtStation(completed_session.stationName),
                             completed_session.seq))
             /\ active_session' = None
             /\ response' = Reply("stop_session", 200)
             /\ UNCHANGED payment_manager

\* ---------------------------------------------------- POST /api/payment/verify
\* "For the demo, always verify the payment successfully"
VerificationResult(h) == [verified |-> TRUE, tx_hash |-> TxHash(h)]

Charging(session, tx_hash) ==
    LET delivered == KwhIn(session.kwh_total, INITIAL_SECONDS) IN
    [session EXCEPT
        !.status = "charging",
        !.payment.tx_hash = tx_hash,
        !.chargingStartTime = Now,
        !.time_elapsed = INITIAL_SECONDS,
        !.kwh_delivered = delivered,
        !.currentEnergy = delivered,
        !.currentAmount = Round2(delivered, session.price)]

verify_payment(session_id, h) ==
    IF active_session = None
    THEN /\ response' = Reply("verify_payment", 404)
         /\ UNCHANGED <<payment_manager, active_session, transactions, agent_logs>>
    ELSE IF active_session.id # session_id
    THEN /\ response' = Reply("verify_payment", 404)
         /\ UNCHANGED <<payment_manager, active_session, transactions, agent_logs>>
    ELSE LET verification_result == VerificationResult(h) IN
         IF verification_result.verified
         THEN /\ active_session' = Charging(active_session, verification_result.tx_hash)
              /\ agent_logs' = Append(agent_logs,
                     LogEntry("payment_verified", verification_result.tx_hash,
                              active_session.seq))
              /\ response' = Reply("verify_payment", 200)
              /\ UNCHANGED <<payment_manager, transactions>>
         ELSE /\ response' = Reply("verify_payment", 200)
              /\ UNCHANGED <<payment_manager, active_session, transactions, agent_logs>>

\* ------------------------------------------------------------------- Next
\* The model's bound on the log, a guard of every operation.
LogHasRoom == Len(agent_logs) < MaxLog

\* What a poll that found the session charging returned: the session after
\* the handler's update.
Observed(session) ==
    [seq |-> session.seq, time_elapsed |-> session.time_elapsed,
     kwh_delivered |-> session.kwh_delivered]

\* simple_main's handlers touch none of main.py's or app.py's globals, and
\* none of them calls payment_manager.verify_payment.
outside_simple == <<main_vars, app_vars, provider_vars, agent_vars>>

\* last_poll follows the stored session: it is forgotten when the session is
\* replaced or dropped.
StartSession ==
    /\ LogHasRoom
    /\ \E station_id \in RequestStationIds, amount \in RequestAmounts,
          session_id \in SessionIds, live_fails \in LiveOutcomes(payment_manager) :
           start_session(station_id, amount, session_id, live_fails)
    /\ last_poll' = IF response'.status = 200 THEN None ELSE last_poll
    /\ UNCHANGED outside_simple

VerifyPayment ==
    /\ LogHasRoom
    /\ \E session_id \in SessionIds, h \in TxHashes : verify_payment(session_id, h)
    /\ UNCHANGED last_poll
    /\ UNCHANGED outside_simple

PollStatus ==
    /\ LogHasRoom
    /\ get_current_session
    /\ last_poll' = IF active_session # None /\ active_session.status = "charging"
                    THEN Observed(active_session')
                    ELSE last_poll
    /\ UNCHANGED outside_simple

StopSession ==
    /\ LogHasRoom
    /\ stop_session
    /\ last_poll' = IF response'.status = 200 THEN None ELSE last_poll
    /\ UNCHANGED outside_simple

Next ==
    \/ StartSession
    \/ VerifyPayment
    \/ PollStatus
    \/ StopSession

\* ------------------------------------------------------------ /api/agent/...
\* The three handlers that ask the Bedrock agent (here: its mock, which always
\* answers) and log what it said. The ghost seq of their entries is 0: they
\* are about no session.
AgentActions == {"agent_query", "charging_recommendation", "session_monitoring"}
AgentPrompts == {"find a charger"}
AgentCalls ==
    Cardinality({i \in 1..Len(agent_logs) : agent_logs[i].action \in AgentActions})

agent_query(prompt) ==
    /\ agent_logs' = Append(agent_logs, LogEntry("agent_query", [prompt |-> prompt], 0))
    /\ response' = Reply("agent_query", 200)
    /\ UNCHANGED <<payment_manager, active_session, transactions>>

get_recommendation ==
    /\ agent_logs' = Append(agent_logs,
           LogEntry("charging_recommendation", AtStation("station-1"), 0))
    /\ response' = Reply("get_recommendation", 200)
    /\ UNCHANGED <<payment_manager, active_session, transactions>>

monitor_session ==
    IF active_session = None
    THEN /\ response' = Reply("monitor_session", 404)
         /\ UNCHANGED <<payment_manager, active_session, transactions, agent_logs>>
    ELSE /\ agent_logs' = Append(agent_logs,
                LogEntry("session_monitoring", [advice |-> "continue"], 0))
         /\ response' = Reply("monitor_session", 200)
         /\ UNCHANGED <<payment_manager, active_session, transactions>>

AgentHasRoom == LogHasRoom /\ AgentCalls < MaxAgentCalls

AgentQuery ==
    /\ AgentHasRoom
    /\ \E prompt \in AgentPrompts : agent_query(prompt)
    /\ UNCHANGED last_poll
    /\ UNCHANGED outside_simple

GetRecommendation ==
    /\ AgentHasRoom
    /\ get_recommendation
    /\ UNCHANGED last_poll
    /\ UNCHANGED outside_simple

MonitorSession ==
    /\ AgentHasRoom
    /\ monitor_session
    /\ UNCHANGED last_poll
    /\ UNCHANGED outside_simple

\* start_session with the first id the server can draw: the id is not written
\* to the log.
LogStartSession ==
    /\ LogHasRoom
    /\ \E station_id \in RequestStationIds, amount \in RequestAmounts :
           start_session(station_id, amount, MinSessionId, FALSE)
    /\ last_poll' = IF response'.status = 200 THEN None ELSE last_poll
    /\ UNCHANGED outside_simple

\* start_session for a positive amount (two sizes of request) at a station of
\* the catalog or an unknown one, with the first id the server can draw.
PolledAmounts == {1, 10}
PolledStationIds == {"station-001", "station-999"}

PolledStartSession ==
    /\ LogHasRoom
    /\ \E station_id \in PolledStationIds, amount \in PolledAmounts :
           start_session(station_id, amount, MinSessionId, FALSE)
    /\ last_poll' = IF response'.status = 200 THEN None ELSE last_poll
    /\ UNCHANGED outside_simple

\* The session handlers, with a client that keeps polling.
NextPolled ==
    \/ PolledStartSession
    \/ VerifyPayment
    \/ PollStatus
    \/ StopSession

\* Every handler of simple_main.py that writes agent_logs.
NextLog ==
    \/ LogStartSession
    \/ VerifyPayment
    \/ PollStatus
    \/ StopSession
    \/ AgentQuery
    \/ GetRecommendation
    \/ MonitorSession

\* ===================================================================
\* main.py
\* ===================================================================
\* main.py's charging_stations: the first five entries of the same catalog.
charging_stations == SubSeq(stations, 1, 5)

\* Requests to main.py: amount_kwh in thousandths of a kWh (9.996 kWh is a
\* request with more than two decimals), payment_method.
MainRequestAmounts == {9996, 10000}
MainRequestStationIds == {"station-001", "station-003", "station-999"}
PaymentMethods == {"crypto", "card"}

\* time.time()
Time(t) == [time |-> t]

\* The session ids a request may name: the stored ones and the one a session
\* started now would get.
MainRequestIds == DOMAIN main_sessions \cup {main_time}

InitMain ==
    /\ main_sessions = << >>
    /\ main_payment_history = << >>
    /\ main_time = 0
    /\ main_response = Reply("none", 0)

\* active_sessions[session_id] = session
Store(sessions, session_id, session) ==
    [k \in DOMAIN sessions \cup {session_id} |->
        IF k = session_id THEN session ELSE sessions[k]]

\* ------------------------------------------------------ POST /api/charge/start
\* The session ids are f"session-{int(time.time())}": the id is the second.
\* payment_required is rate_crypto * amount_kwh, unrounded (1/1000 cent).
CryptoSession(station, amount_kwh) ==
    [station_id |-> station.id,
     start_time |-> None,
     status |-> "awaiting_payment",
     kwh_delivered |-> 0,
     amount_kwh |-> amount_kwh,
     rate_crypto |-> station.rate_crypto,
     power_kw |-> station.power_kw,
     payment_required |-> station.rate_crypto * amount_kwh]

CardSession(station, amount_kwh, now) ==
    [station_id |-> station.id,
     start_time |-> Time(now),
     status |-> "charging",
     kwh_delivered |-> 0,
     amount_kwh |-> amount_kwh,
     rate_kwh |-> station.price,
     power_kw |-> station.power_kw]

start_charging(station_id, amount_kwh, payment_method) ==
    LET station == FindStation(charging_stations, station_id)
        session_id == main_time
    IN  IF station = None
        THEN /\ main_response' = Reply("start_charging", 404)
             /\ UNCHANGED <<main_sessions, main_payment_history, main_time>>
        ELSE /\ main_sessions' = Store(main_sessions, session_id,
                    IF payment_method = "crypto"
                    THEN CryptoSession(station, amount_kwh)
                    ELSE CardSession(station, amount_kwh, main_time))
             /\ main_response' = Reply("start_charging", 200)
             /\ UNCHANGED <<main_payment_history, main_time>>

\* ---------------------------------------------------- POST /api/charge/payment
process_payment(session_id, h) ==
    IF session_id \notin DOMAIN main_sessions
    THEN /\ main_response' = Reply("process_payment", 404)
         /\ UNCHANGED <<main_sessions, main_payment_history, main_time>>
    ELSE LET session == main_sessions[session_id] IN
         IF session.status # "awaiting_payment"
         THEN /\ main_response' = Reply("process_payment", 400)
              /\ UNCHANGED <<main_sessions, main_payment_history, main_time>>
         ELSE /\ main_payment_history' = Append(main_payment_history,
                     [amount |-> session.payment_required, currency |-> "USDC",
                      timestamp |-> Time(main_time), tx_hash |-> TxHash(h),
                      session_id |-> session_id])
              /\ main_sessions' = [main_sessions EXCEPT ![session_id] =
                     [session EXCEPT !.status = "charging",
                                     !.start_time = Time(main_time)]]
              /\ main_response' = Reply("process_payment", 200)
              /\ UNCHANGED main_time

\* ------------------------------------------- GET /api/charge/status/{session_id}
\* elapsed_time * power_kw / 3600 kWh against amount_kwh / 1000 kWh.
ReachedAmount(session, elapsed_time) ==
    elapsed_time * session.power_kw * 1000 >= session.amount_kwh * 3600

\* round(min(elapsed_time * kwh_per_second, amount_kwh), 2), in 1/100 kWh.
RoundedDelivered(session, elapsed_time) ==
    IF ReachedAmount(session, elapsed_time)
    THEN RoundDiv(session.amount_kwh, 10)
    ELSE RoundDiv(elapsed_time * session.power_kw, 36)

get_charging_status(session_id) ==
    IF session_id \notin DOMAIN main_sessions
    THEN /\ main_response' = Reply("get_charging_status", 404)
         /\ UNCHANGED <<main_sessions, main_payment_history, main_time>>
    ELSE LET session == main_sessions[session_id] IN
         /\ main_response' = Reply("get_charging_status", 200)
         /\ UNCHANGED <<main_payment_history, main_time>>
         /\ IF session.status = "charging"
            THEN LET elapsed_time == main_time - session.start_time.time IN
                 main_sessions' = [main_sessions EXCEPT ![session_id] =
                     [session EXCEPT
                        !.kwh_delivered = RoundedDelivered(session, elapsed_time),
                        !.status = IF ReachedAmount(session, elapsed_time)
                                   THEN "completed" ELSE @]]
            ELSE UNCHANGED main_sessions

\* ------------------------------------------------------------------ SpecMain
\* The model's bounds on main.py's dictionary and list.
MainHasRoom(session_id) ==
    \/ session_id \in DOMAIN main_sessions
    \/ Cardinality(DOMAIN main_sessions) < MaxMainSessions

MainStart ==
    /\ MainHasRoom(main_time)
    /\ \E station_id \in MainRequestStationIds, amount_kwh \in MainRequestAmounts,
          payment_method \in PaymentMethods :
           start_charging(station_id, amount_kwh, payment_method)
    /\ UNCHANGED <<simple_vars, app_vars, provider_vars, agent_vars>>

MainPayment ==
    /\ Len(main_payment_history) < MaxMainPayments
    /\ \E session_id \in MainRequestIds, h \in TxHashes : process_payment(session_id, h)
    /\ UNCHANGED <<simple_vars, app_vars, provider_vars, agent_vars>>

MainStatus ==
    /\ \E session_id \in MainRequestIds : get_charging_status(session_id)
    /\ UNCHANGED <<simple_vars, app_vars, provider_vars, agent_vars>>

\* The wall clock advances between requests.
MainTick ==
    /\ main_time + ClockStep <= MaxClock
    /\ main_time' = main_time + ClockStep
    /\ UNCHANGED <<main_sessions, main_payment_history, main_response>>
    /\ UNCHANGED <<simple_vars, app_vars, provider_vars, agent_vars>>

NextMain ==
    \/ MainStart
    \/ MainPayment
    \/ MainStatus
    \/ MainTick

\* ===================================================================
\* app.py
\* ===================================================================
\* Numbers: price_kwh in cents, amount_kwh in kWh, time in whole seconds;
\* progress = min(1.0, elapsed / 1800) is kept as its numerator
\* min(elapsed, 1800), so energy_delivered is in 1/1800 kWh and total_cost,
\* current_cost, final_cost and a payment's amount are in 1/1800 cent.
app_charging_stations ==
    << [id |-> "station-1", name |-> "ChargeX Station #1", available |-> TRUE,
        price_kwh |-> 35],
       [id |-> "station-2", name |-> "ChargeX Station #2", available |-> TRUE,
        price_kwh |-> 42] >>

AppRequestStationIds == {"station-1", "station-9"}
AppRequestAmounts == {10}

\* The session ids a request may name: the stored ones and the one a session
\* started now would get (f"session_{int(time.time())}").
AppRequestIds == DOMAIN app_sessions \cup {app_time}

InitApp ==
    /\ app_sessions = << >>
    /\ app_payment_history = << >>
    /\ app_time = 0
    /\ app_response = Reply("none", 0)

\* ------------------------------------------------------ POST /api/charge/start
\* keys: which of progress, energy_delivered, current_cost, final_cost and
\* end_time the dict has; a key it has not reads 0 (None for end_time) here.
AppSession(station, session_id, amount_kwh, now, status) ==
    [id |-> session_id,
     station_id |-> station.id,
     station_name |-> station.name,
     start_time |-> now,
     amount_kwh |-> amount_kwh,
     price_kwh |-> station.price_kwh,
     total_cost |-> station.price_kwh * amount_kwh * APP_CHARGE_SECONDS,
     status |-> status,
     keys |-> {},
     progress |-> 0,
     energy_delivered |-> 0,
     current_cost |-> 0,
     final_cost |-> 0,
     end_time |-> None]

app_start_charging(station_id, amount_kwh, payment_method) ==
    LET station == FindStation(app_charging_stations, station_id)
        session_id == app_time
    IN  IF station = None
        THEN /\ app_response' = Reply("start_charging", 404)
             /\ UNCHANGED <<app_sessions, app_payment_history, app_time>>
        ELSE IF ~station.available
        THEN /\ app_response' = Reply("start_charging", 400)
             /\ UNCHANGED <<app_sessions, app_payment_history, app_time>>
        ELSE /\ app_sessions' = Store(app_sessions, session_id,
                    AppSession(station, session_id, amount_kwh, app_time,
                               IF payment_method = "crypto"
                               THEN "initiated" ELSE "charging"))
             /\ app_response' = Reply("start_charging", 200)
             /\ UNCHANGED <<app_payment_history, app_time>>

\* The record both get_charging_session and x402_payment_callback append.
AppPayment(session, now, timestamp) ==
    [id |-> now, session_id |-> session.id, amount |-> session.total_cost,
     currency |-> "USDC", timestamp |-> timestamp,
     station_name |-> session.station_name]

\* min(1.0, elapsed / 1800) in 1/1800
AppProgress(session, now) ==
    LET elapsed == now - session.start_time
    IN  IF elapsed >= APP_CHARGE_SECONDS THEN APP_CHARGE_SECONDS ELSE elapsed

\* ------------------------------------------------ GET /api/charge/{session_id}
get_charging_session(session_id) ==
    IF session_id \notin DOMAIN app_sessions
    THEN /\ app_response' = Reply("get_charging_session", 404)
         /\ UNCHANGED <<app_sessions, app_payment_history, app_time>>
    ELSE LET session == app_sessions[session_id] IN
         /\ app_response' = Reply("get_charging_session", 200)
         /\ UNCHANGED app_time
         /\ IF session.status = "charging"
            THEN LET progress == AppProgress(session, app_time)
                     updated ==
                        [session EXCEPT
                           !.keys = @ \cup {"progress", "energy_delivered", "current_cost"},
                           !.progress = progress,
                           !.energy_delivered = progress * session.amount_kwh,
                           !.current_cost =
                               (progress * session.total_cost) \div APP_CHARGE_SECONDS]
                     completed ==
                        [updated EXCEPT !.status = "completed",
                                        !.keys = @ \cup {"end_time"},
                                        !.end_time = Time(app_time)]
                 IN  IF progress >= APP_CHARGE_SECONDS
                     THEN /\ app_sessions' =
                                [app_sessions EXCEPT ![session_id] = completed]
                          /\ app_payment_history' = Append(app_payment_history,
                                AppPayment(completed, app_time, completed.end_time))
                     ELSE /\ app_sessions' = [app_sessions EXCEPT ![session_id] = updated]
                          /\ UNCHANGED app_payment_history
            ELSE UNCHANGED <<app_sessions, app_payment_history>>

\* ------------------------- POST /api/charge/{session_id}/x402/payment-callback
x402_payment_callback(session_id) ==
    IF session_id \notin DOMAIN app_sessions
    THEN /\ app_response' = Reply("x402_payment_callback", 404)
         /\ UNCHANGED <<app_sessions, app_payment_history, app_time>>
    ELSE LET session == [app_sessions[session_id] EXCEPT
                            !.status = "charging", !.start_time = app_time]
         IN  /\ app_sessions' = [app_sessions EXCEPT ![session_id] = session]
             /\ app_payment_history' = Append(app_payment_history,
                    AppPayment(session, app_time, Time(session.start_time)))
             /\ app_response' = Reply("x402_payment_callback", 200)
             /\ UNCHANGED app_time

\* ------------------------------------------- POST /api/charge/{session_id}/stop
stop_charging(session_id) ==
    IF session_id \notin DOMAIN app_sessions
    THEN /\ app_response' = Reply("stop_charging", 404)
         /\ UNCHANGED <<app_sessions, app_payment_history, app_time>>
    ELSE LET session == app_sessions[session_id] IN
         IF session.status # "charging"
         THEN /\ app_response' = Reply("stop_charging", 400)
              /\ UNCHANGED <<app_sessions, app_payment_history, app_time>>
         ELSE LET progress == AppProgress(session, app_time)
                  energy_delivered == progress * session.amount_kwh
                  final_cost == session.price_kwh * energy_delivered
              IN  /\ app_sessions' = [app_sessions EXCEPT ![session_id] =
                         [session EXCEPT
                            !.status = "completed",
                            !.keys = @ \cup {"end_time", "energy_delivered", "final_cost"},
                            !.end_time = Time(app_time),
                            !.energy_delivered = energy_delivered,
                            !.final_cost = final_cost]]
                  /\ app_payment_history' =
                         [i \in DOMAIN app_payment_history |->
                            IF app_payment_history[i].session_id = session_id
                            THEN [app_payment_history[i] EXCEPT !.amount = final_cost]
                            ELSE app_payment_history[i]]
                  /\ app_response' = Reply("stop_charging", 200)
                  /\ UNCHANGED app_time

\* ------------------------------------------------------------------- SpecApp
\* The model's bounds on app.py's dictionary and list.
AppHasRoom(session_id) ==
    \/ session_id \in DOMAIN app_sessions
    \/ Cardinality(DOMAIN app_sessions) < MaxAppSessions

AppHistoryHasRoom == Len(app_payment_history) < MaxAppPayments

outside_app == <<simple_vars, main_vars, provider_vars, agent_vars>>

AppStart ==
    /\ AppHasRoom(app_time)
    /\ \E station_id \in AppRequestStationIds, amount_kwh \in AppRequestAmounts,
          payment_method \in PaymentMethods :
           app_start_charging(station_id, amount_kwh, payment_method)
    /\ UNCHANGED outside_app

AppStatus ==
    /\ AppHistoryHasRoom
    /\ \E session_id \in AppRequestIds : get_charging_session(session_id)
    /\ UNCHANGED outside_app

AppCallback ==
    /\ AppHistoryHasRoom
    /\ \E session_id \in AppRequestIds : x402_payment_callback(session_id)
    /\ UNCHANGED outside_app

AppStop ==
    /\ \E session_id \in AppRequestIds : stop_charging(session_id)
    /\ UNCHANGED outside_app

\* The wall clock advances between requests.
AppTick ==
    /\ app_time + AppClockStep <= AppMaxClock
    /\ app_time' = app_time + AppClockStep
    /\ UNCHANGED <<app_sessions, app_payment_history, app_response>>
    /\ UNCHANGED outside_app

NextApp ==
    \/ AppStart
    \/ AppStatus
    \/ AppCallback
    \/ AppStop
    \/ AppTick

\* ===================================================================
\* payment.py on its own: calls of payment_manager.verify_payment
\* ===================================================================
InitProvider ==
    /\ provider_results = << >>
    /\ uuid_count = 0
    /\ provider_quotes = << >>

\* One call; the record keeps, beside what the call returned, what it was
\* given and what the SDK did.
ProviderVerify ==
    /\ Len(provider_results) < MaxVerifyCalls
    /\ \E proof \in Proofs, live \in LiveVerdicts(payment_manager) :
          LET result == ProviderVerifyPayment(payment_manager, proof, live, uuid_count)
          IN  /\ provider_results' = Append(provider_results,
                     [proof |-> proof, live |-> live, result |-> result])
              /\ uuid_count' = uuid_count + result.drawn
    /\ UNCHANGED provider_quotes
    /\ UNCHANGED <<simple_vars, main_vars, app_vars, agent_vars>>

NextProvider == ProviderVerify

\* One call of get_payment_requirements; the record keeps what the call was
\* given, whether the SDK call raised, and what came back. PaymentManager
\* draws a uuid4 for payment_id on every call.
ProviderQuote ==
    /\ Len(provider_quotes) < MaxQuoteCalls
    /\ \E station_id \in RequestStationIds, kwh_amount \in RequestAmounts,
          live_fails \in LiveOutcomes(payment_manager) :
          provider_quotes' = Append(provider_quotes,
              [station_id |-> station_id, kwh_amount |-> kwh_amount,
               live_fails |-> live_fails,
               quote |-> GetPaymentRequirements(payment_manager, kwh_amount,
                                                station_id, live_fails)])
    /\ uuid_count' = uuid_count
                       + (IF payment_manager.class = "PaymentManager" THEN 1 ELSE 0)
    /\ UNCHANGED provider_results
    /\ UNCHANGED <<simple_vars, main_vars, app_vars, agent_vars>>

NextQuote == ProviderQuote

\* ===================================================================
\* agent.py
\* ===================================================================
\* A station dict of the list GET /api/discover returned: keys says which of
\* the keys the agent reads with .get or [] are present. Rates in cents.
AgentStation(id, available, rate_crypto, keys) ==
    [id |-> id, available |-> available, rate_crypto |-> rate_crypto, keys |-> keys]

AllKeys == {"id", "name", "available", "rate_crypto"}

\* Stations of the catalog (one of them not available, two with the same
\* rate) and two dicts that lack a key.
AgentStationPool ==
    { AgentStation("station-001", TRUE, 25, AllKeys),
      AgentStation("station-003", FALSE, 24, AllKeys),
      AgentStation("station-004", TRUE, 26, AllKeys),
      AgentStation("station-006", TRUE, 26, AllKeys),
      AgentStation("station-00a", TRUE, 0, AllKeys \ {"rate_crypto"}),
      AgentStation("station-00b", FALSE, 20, AllKeys \ {"available"}) }

StationLists == UNION { [1..n -> AgentStationPool] : n \in 0..MaxStations }

\* s.get("available", False)
Available(s) == "available" \in s.keys /\ s.available
\* s.get("rate_crypto", float("inf"))
RateKey(s) == IF "rate_crypto" \in s.keys THEN s.rate_crypto ELSE Infinity

\* sorted(list, key=...): a stable sort, built by inserting each element
\* after the elements whose key is not greater.
InsertByRate(x, sorted) ==
    LET k == Cardinality({i \in DOMAIN sorted : RateKey(sorted[i]) <= RateKey(x)})
    IN  SubSeq(sorted, 1, k) \o <<x>> \o SubSeq(sorted, k + 1, Len(sorted))

RECURSIVE SortedByRate(_)
SortedByRate(list) ==
    IF list = << >> THEN << >>
    ELSE InsertByRate(list[Len(list)], SortedByRate(SubSeq(list, 1, Len(list) - 1)))

\* A selection that sorts every station, available or not.
select_best_station_unfiltered(station_list) ==
    IF station_list = << >> THEN None
    ELSE SortedByRate(station_list)[1]

\* ChargeXAgent.select_best_station
select_best_station(station_list) ==
    IF station_list = << >> THEN None
    ELSE LET available_stations == SelectSeq(station_list, Available)
         IN  IF available_stations = << >> THEN None
             ELSE SortedByRate(available_stations)[1]

\* What the flow returns: success and the log lines (their kind).
AgentResult(success, logs) == [success |-> success, logs |-> logs]
Logged(lines) == AgentResult(agent_result.success, agent_result.logs \o lines)

\* The replies of POST /api/charge/start as start_charging_session hands
\* them on: {"error": ...} when the request failed, else the server's JSON,
\* with status awaiting_payment (and payment details) or charging, or
\* without a status key.
StartReplies ==
    { [error |-> TRUE, has_status |-> FALSE, status |-> ""],
      [error |-> FALSE, has_status |-> TRUE, status |-> "awaiting_payment"],
      [error |-> FALSE, has_status |-> TRUE, status |-> "charging"],
      [error |-> FALSE, has_status |-> FALSE, status |-> ""] }

\* The outcomes of one GET /api/charge/status/{session_id} in the monitor:
\* the status of the JSON, or an exception (raise_for_status, a missing key).
MonitorReplies == {"charging", "completed", "error", "raised"}

InitAgent(bound) ==
    /\ agent_pc = "discover"
    /\ asyncio_bound \in bound
    /\ agent_stations = << >>
    /\ active_station = None
    /\ current_session = None
    /\ agent_result = AgentResult(FALSE, << >>)
    /\ agent_polls = 0
    /\ agent_observed = "none"

\* full_charging_flow, steps 1 and 2: discover_stations (an exception in it
\* gives the empty list) and select_best_station; the log line of step 2
\* reads best_station['name'] and best_station['rate_crypto'].
AgentDiscover ==
    /\ agent_pc = "discover"
    /\ \E station_list \in StationLists :
          LET best_station == select_best_station(station_list) IN
          /\ agent_stations' = station_list
          /\ IF station_list = << >>
             THEN /\ agent_result' = Logged(<<"Discovering charging stations...", "No charging stations found.">>)
                  /\ agent_pc' = "done"
                  /\ UNCHANGED active_station
             ELSE IF best_station = None
             THEN /\ agent_result' = Logged(<<"Discovering charging stations...", "Found stations.",
                                             "No available charging stations.">>)
                  /\ agent_pc' = "done"
                  /\ UNCHANGED active_station
             ELSE IF ~({"name", "rate_crypto"} \subseteq best_station.keys)
             THEN /\ active_station' = best_station
                  /\ agent_result' = Logged(<<"Discovering charging stations...",
                                             "Found stations.", "Error in charging flow">>)
                  /\ agent_pc' = "done"
             ELSE /\ active_station' = best_station
                  /\ agent_result' = Logged(<<"Discovering charging stations...", "Found stations.",
                                             "Selected station">>)
                  /\ agent_pc' = "start"
    /\ UNCHANGED <<asyncio_bound, current_session, agent_polls, agent_observed>>
    /\ UNCHANGED <<simple_vars, main_vars, app_vars, provider_vars>>

\* Step 3: start_charging_session, and the test of session_data["status"].
AgentStart ==
    /\ agent_pc = "start"
    /\ \E session_data \in StartReplies :
          IF session_data.error
          THEN /\ agent_result' = Logged(<<"Initiating charging session...", "Failed to start charging">>)
               /\ agent_pc' = "done"
               /\ UNCHANGED current_session
          ELSE /\ current_session' = session_data
               /\ IF ~session_data.has_status
                  THEN /\ agent_result' = Logged(<<"Initiating charging session...",
                                                  "Session initiated", "Error in charging flow">>)
                       /\ agent_pc' = "done"
                  ELSE IF session_data.status = "awaiting_payment"
                  THEN /\ agent_result' = Logged(<<"Initiating charging session...",
                                                  "Session initiated", "Payment required">>)
                       /\ agent_pc' = "pay"
                  ELSE /\ agent_result' = Logged(<<"Initiating charging session...",
                                                  "Session initiated",
                                                  "Monitoring charging progress...">>)
                       /\ agent_pc' = "monitor"
    /\ UNCHANGED <<asyncio_bound, agent_stations, active_station, agent_polls,
                   agent_observed>>
    /\ UNCHANGED <<simple_vars, main_vars, app_vars, provider_vars>>

\* Step 4: handle_payment; it returns {"error": ...} on any exception.
AgentPay ==
    /\ agent_pc = "pay"
    /\ \E payment_error \in BOOLEAN :
          IF payment_error
          THEN /\ agent_result' = Logged(<<"Payment failed">>)
               /\ agent_pc' = "done"
          ELSE /\ agent_result' = Logged(<<"Payment successful.",
                                          "Monitoring charging progress...">>)
               /\ agent_pc' = "monitor"
    /\ UNCHANGED <<asyncio_bound, agent_stations, active_station, current_session,
                   agent_polls, agent_observed>>
    /\ UNCHANGED <<simple_vars, main_vars, app_vars, provider_vars>>

\* The lines after the monitor returned: result["success"] = True.
Succeeded == AgentResult(TRUE, Append(agent_result.logs, "Charging flow completed successfully."))

\* Step 5: one turn of monitor_charging_session's loop. The loop ends on
\* completed, on error, and on any exception, which the monitor swallows:
\* an exception of the request, or the NameError of asyncio.sleep when
\* asyncio is not bound. However it ends, the flow goes on to success.
AgentMonitor ==
    /\ agent_pc = "monitor"
    /\ agent_polls < MaxMonitorPolls
    /\ \E reply \in MonitorReplies :
          /\ agent_polls' = agent_polls + 1
          /\ agent_observed' = reply
          /\ IF reply = "charging" /\ asyncio_bound
             THEN UNCHANGED <<agent_pc, agent_result>>
             ELSE /\ agent_result' = Succeeded
                  /\ agent_pc' = "done"
    /\ UNCHANGED <<asyncio_bound, agent_stations, active_station, current_session>>
    /\ UNCHANGED <<simple_vars, main_vars, app_vars, provider_vars>>

NextAgent ==
    \/ AgentDiscover
    \/ AgentStart
    \/ AgentPay
    \/ AgentMonitor

\* In the servers' specifications the agent does not run.
Init ==
    InitSimple(PaymentManagers) /\ InitMain /\ InitApp /\ InitProvider /\ InitAgent({TRUE})

\* main.py imports no payment manager: simple_main's variables stay as they
\* are with the mock.
InitForMain ==
    InitSimple({MockPaymentManager}) /\ InitMain /\ InitApp /\ InitProvider
        /\ InitAgent({TRUE})

\* The agent, run as a script (asyncio bound) or imported (not bound).
InitForAgent ==
    InitSimple({MockPaymentManager}) /\ InitMain /\ InitApp /\ InitProvider
        /\ InitAgent(BOOLEAN)

Spec == Init /\ [][Next]_vars

SpecMain == InitForMain /\ [][NextMain]_vars

\* app.py imports no payment manager either.
SpecApp == InitForMain /\ [][NextApp]_vars

SpecProvider == Init /\ [][NextProvider]_vars

SpecQuote == Init /\ [][NextQuote]_vars

SpecLog == InitForMain /\ [][NextLog]_vars

SpecAgent == InitForAgent /\ [][NextAgent]_vars

\* The client polls again as long as a poll changes anything.
SpecPolled == InitForMain /\ [][NextPolled]_vars /\ WF_vars(PollStatus)

TypeOK ==
    /\ payment_manager \in PaymentManagers
    /\ Len(agent_logs) <= MaxLog
    /\ Len(transactions) <= Len(SeedTransactions) + MaxLog
    /\ active_session # None =>
          /\ active_session.status \in {"awaiting_payment", "charging", "completed"}
          /\ active_session.id \in SessionIds
          /\ active_session.time_elapsed \in 0..FULL_CHARGE_SECONDS
          /\ active_session.seq = Started

\* ================================================================ claims
\* A stored session whose request was valid (a positive amount of energy).
ValidSession == active_session # None /\ active_session.kwh_total > 0

HasStatus(status) == active_session # None /\ active_session.status = status

\* C1: in every reachable state the session's current_cost (currentAmount)
\* equals round(kwh_delivered * rate_per_kwh, 2) for the kwh_delivered stored
\* in that state, the state left by the completing poll included. Stated for
\* sessions with a positive request.
C1_CostMatchesDelivered ==
    ValidSession =>
        active_session.currentAmount =
            Round2(active_session.kwh_delivered, active_session.price)

\* C2: status transitions of a session are monotonic: once it has left
\* awaiting_payment it never is awaiting_payment again, and once it has left
\* charging it never is charging again.
C2_StatusMonotonic ==
    [][ (/\ ValidSession
         /\ active_session' # None
         /\ active_session'.seq = active_session.seq)
        => /\ active_session.status # "awaiting_payment"
                => active_session'.status # "awaiting_payment"
           /\ active_session.status \notin {"awaiting_payment", "charging"}
                => active_session'.status # "charging" ]_vars

\* C3: verify_payment for the stored session while it is charging is refused
\* (400) and leaves the session and the activity log as they were.
C3_VerifyOnChargingRejected ==
    [][ \A session_id \in SessionIds, h \in TxHashes :
          (/\ ValidSession
           /\ active_session.status = "charging"
           /\ active_session.id = session_id
           /\ verify_payment(session_id, h))
          => /\ response'.status = 400
             /\ UNCHANGED <<active_session, agent_logs>> ]_vars

\* C4: once the session is terminal (completed), a verify_payment for it and a
\* stop_session are refused (400), and neither they nor a poll change the
\* session, the activity log or the settlement records.
C4_TerminalRejectsMutation ==
    [][ (ValidSession /\ active_session.status = "completed")
        => /\ get_current_session
                => UNCHANGED <<active_session, agent_logs, transactions>>
           /\ stop_session
                => /\ response'.status = 400
                   /\ UNCHANGED <<active_session, agent_logs, transactions>>
           /\ \A h \in TxHashes :
                verify_payment(active_session.id, h)
                => /\ response'.status = 400
                   /\ UNCHANGED <<active_session, agent_logs, transactions>> ]_vars

\* C5: stop_session while the session is awaiting_payment is refused: the
\* session stays as it is, and no settlement record or log entry is appended.
C5_StopOnAwaitingRejected ==
    [][ (ValidSession /\ active_session.status = "awaiting_payment" /\ stop_session)
        => /\ response'.status # 200
           /\ UNCHANGED <<active_session, agent_logs, transactions>> ]_vars

\* C6: start_session while a session is awaiting_payment or charging is
\* refused and the live session is not replaced.
C6_StartRejectedWhileLive ==
    [][ (/\ ValidSession
         /\ active_session.status \in {"awaiting_payment", "charging"}
         /\ response'.op = "start_session")
        => /\ response'.status # 200
           /\ UNCHANGED active_session ]_vars

\* C7: every session a successful start_session created is still stored (and
\* so is what a poll returns).
C7_SessionsRetained ==
    \A n \in 1..Started : active_session # None /\ active_session.seq = n

\* C8: the quote stored on the session has amount
\* round(kwh_total * rate_crypto, 2) for the rate_crypto of the session's
\* own station.
C8_QuoteUsesStationRate ==
    ValidSession =>
        active_session.payment.amount =
            RoundDiv(active_session.kwh_total
                       * FindStation(stations, active_session.stationId).rate_crypto, 1)

\* C9: 0 <= kwh_delivered <= requested_kwh in every reachable state, for
\* every session main.py stores (kwh_delivered in 1/100 kWh, amount_kwh in
\* 1/1000 kWh).
C9_MainDeliveredWithinRequest ==
    \A session_id \in DOMAIN main_sessions :
        /\ 0 <= main_sessions[session_id].kwh_delivered
        /\ main_sessions[session_id].kwh_delivered * 10
              <= main_sessions[session_id].amount_kwh

\* The same bounds for simple_main's session: they hold for every positive
\* request and fail for the non-positive amounts start_session accepts.
SimpleDeliveredWithinRequest ==
    active_session # None =>
        /\ 0 <= active_session.kwh_delivered
        /\ active_session.kwh_delivered <= Kwh(active_session.kwh_total)

SimpleDeliveredWithinValidRequest == ValidSession => SimpleDeliveredWithinRequest

\* C10: a start request naming an unknown station is answered 404 and one
\* naming an unavailable station 400, and neither creates or replaces a
\* session; stated for main.py's start_charging.
C10_MainStartRejected ==
    [][ \A station_id \in MainRequestStationIds, amount_kwh \in MainRequestAmounts,
           payment_method \in PaymentMethods :
          LET station == FindStation(charging_stations, station_id) IN
          start_charging(station_id, amount_kwh, payment_method)
          => /\ station = None
                  => main_response'.status = 404 /\ UNCHANGED main_sessions
             /\ (station # None /\ ~station.available)
                  => main_response'.status = 400 /\ UNCHANGED main_sessions ]_vars

\* The same for simple_main's start_session, which also leaves the activity
\* log and the settlement records alone.
SimpleStartRejected ==
    [][ \A station_id \in RequestStationIds, amount \in RequestAmounts,
           session_id \in SessionIds, live_fails \in BOOLEAN :
          LET station == FindStation(stations, station_id) IN
          start_session(station_id, amount, session_id, live_fails)
          => /\ station = None
                  => /\ response'.status = 404
                     /\ UNCHANGED <<active_session, agent_logs, transactions>>
             /\ (station # None /\ ~station.available)
                  => /\ response'.status = 400
                     /\ UNCHANGED <<active_session, agent_logs, transactions>> ]_vars

\* C11: start_session with a non-positive amount is refused and creates no
\* session (so every stored session has kwh_total > 0).
C11_NonPositiveAmountRejected ==
    [][ \A station_id \in RequestStationIds, amount \in RequestAmounts,
           session_id \in SessionIds, live_fails \in BOOLEAN :
          (amount <= 0 /\ start_session(station_id, amount, session_id, live_fails))
          => /\ response'.status # 200
             /\ UNCHANGED <<active_session, agent_logs>> ]_vars

\* C12: what a poll of a charging session reports never is less than what an
\* earlier poll of that session reported, in time_elapsed and in
\* kwh_delivered, whatever was requested in between. Stated for sessions with
\* a positive request.
C12_PolledProgressMonotonic ==
    [][ (/\ ValidSession
         /\ last_poll # None
         /\ last_poll' # None
         /\ last_poll'.seq = last_poll.seq)
        => /\ last_poll'.time_elapsed >= last_poll.time_elapsed
           /\ last_poll'.kwh_delivered >= last_poll.kwh_delivered ]_vars

\* C13: a charging session never has zero progress: time_elapsed > 0 and
\* kwh_delivered > 0 from the verify_payment that made it charging on.
C13_ChargingHasProgress ==
    HasStatus("charging") =>
        /\ active_session.time_elapsed > 0
        /\ active_session.kwh_delivered > 0

\* The same for sessions with a positive request: it holds.
ChargingValidHasProgress == ValidSession => C13_ChargingHasProgress

\* The state verify_payment has just left: its 200 reply is the last one.
JustVerified ==
    /\ active_session # None
    /\ response = Reply("verify_payment", 200)

CompletingPoll ==
    /\ HasStatus("charging")
    /\ active_session.kwh_delivered
          + KwhIn(active_session.kwh_total, elapsed_increase)
          >= Kwh(active_session.kwh_total)
    /\ get_current_session

\* C15: the poll that finds kwh_delivered >= kwh_total leaves kwh_delivered
\* equal to kwh_total, time_elapsed equal to 10800, the status completed and
\* endTime set, and appends exactly one session_complete log entry and
\* exactly one settlement record, both of that session.
C15_CompletingPollFinishes ==
    [][ CompletingPoll
        => /\ active_session'.kwh_delivered = Kwh(active_session.kwh_total)
           /\ active_session'.time_elapsed = FULL_CHARGE_SECONDS
           /\ active_session'.status = "completed"
           /\ active_session'.endTime # None
           /\ Len(agent_logs') = Len(agent_logs) + 1
           /\ SubSeq(agent_logs', 1, Len(agent_logs)) = agent_logs
           /\ agent_logs'[Len(agent_logs')].action = "session_complete"
           /\ agent_logs'[Len(agent_logs')].seq = active_session.seq
           /\ Len(transactions') = Len(transactions) + 1
           /\ SubSeq(transactions', 1, Len(transactions)) = transactions
           /\ transactions'[Len(transactions')].seq = active_session.seq
           /\ transactions'[Len(transactions')].energy = Kwh(active_session.kwh_total) ]_vars

\* A 10 kWh session completed by a poll, its log entry and record the last.
C15_Witness ==
    /\ ValidSession
    /\ active_session.status = "completed"
    /\ active_session.kwh_delivered = Kwh(active_session.kwh_total)
    /\ response = Reply("get_current_session", 200)
    /\ agent_logs # << >>
    /\ agent_logs[Len(agent_logs)]
         = LogEntry("session_complete", AtStation(active_session.stationName),
                    active_session.seq)
    /\ transactions[Len(transactions)].seq = active_session.seq

\* C16, for app.py's stop_charging: stopping a charging session leaves its
\* cost at round(energy_delivered * price_kwh, 2) for the energy_delivered it
\* has when stopped (final_cost, and current_cost where the session has it).
C16_AppStopFinalizesCost ==
    [][ \A session_id \in DOMAIN app_sessions :
          (app_sessions[session_id].status = "charging" /\ stop_charging(session_id))
          => LET session == app_sessions'[session_id]
                 cost == APP_CHARGE_SECONDS
                           * RoundDiv(session.price_kwh * session.energy_delivered,
                                      APP_CHARGE_SECONDS)
             IN  /\ session.final_cost = cost
                 /\ "current_cost" \in session.keys => session.current_cost = cost ]_vars

\* The same for simple_main's stop_session, whose settlement record is what
\* remains of the session: its amount is round(kwh_delivered * price, 2) for
\* the kwh_delivered the session had. It holds.
SimpleStopFinalizesCost ==
    [][ (HasStatus("charging") /\ stop_session)
        => /\ Len(transactions') = Len(transactions) + 1
           /\ transactions'[Len(transactions')].seq = active_session.seq
           /\ transactions'[Len(transactions')].energy = active_session.kwh_delivered
           /\ transactions'[Len(transactions')].amount
                 = Round2(active_session.kwh_delivered, active_session.price) ]_vars

\* No poll changes a settlement record, and no poll changes a session that
\* is not charging (app.py and simple_main). It holds.
SimplePollKeepsRecords ==
    [][ get_current_session
        => /\ SubSeq(transactions', 1, Len(transactions)) = transactions
           /\ ~HasStatus("charging") => UNCHANGED active_session ]_vars

AppPollKeepsStopped ==
    [][ \A session_id \in DOMAIN app_sessions :
          (app_sessions[session_id].status # "charging"
           /\ get_charging_session(session_id))
          => UNCHANGED <<app_sessions, app_payment_history>> ]_vars

\* C17: the session is charging only if payment_manager.verify_payment
\* returned verified = true (a verdict of the provider precedes charging).
C17_ChargingOnlyAfterProviderVerified ==
    (ValidSession /\ active_session.status = "charging")
    => \E i \in DOMAIN provider_results : provider_results[i].result.verified

\* The calls of verify_payment answered by the simulation: the mock's, and
\* PaymentManager's fallback when no live verification is configured.
SimulatedCalls ==
    IF payment_manager.class = "MockPaymentManager"
       \/ (~UsesLiveVerification(payment_manager) /\ payment_manager.enable_fallback)
    THEN DOMAIN provider_results
    ELSE {}

\* The values generated so far.
GeneratedSoFar == {Generated(n) : n \in 1..uuid_count}

\* C18: every simulated verify_payment returns verified = true with a
\* tx_hash generated by that call and different from the tx_hash of every
\* other call, whatever the proof holds.
C18_SimulatedVerifyFresh ==
    \A i \in SimulatedCalls :
        /\ provider_results[i].result.verified
        /\ provider_results[i].result.tx_hash \in GeneratedSoFar
        /\ \A j \in DOMAIN provider_results :
              j # i => provider_results[j].result.tx_hash
                         # provider_results[i].result.tx_hash

\* The same for the mock alone: it holds.
MockVerifyFresh ==
    payment_manager.class = "MockPaymentManager" => C18_SimulatedVerifyFresh

\* The calls of PaymentManager.verify_payment whose live verification raised
\* or was not available.
LiveFailedCalls ==
    IF payment_manager.class # "PaymentManager" THEN {}
    ELSE {i \in DOMAIN provider_results :
            \/ ~UsesLiveVerification(payment_manager)
            \/ provider_results[i].live.kind = "raises"}

\* C19: when live verification raises or is unavailable, verify_payment
\* returns verified = true with a synthesized tx_hash if and only if fallback
\* is enabled; with fallback disabled it returns verified = false with an
\* error, and it never raises.
C19_FallbackDecidesVerdict ==
    \A i \in LiveFailedCalls :
        LET result == provider_results[i].result IN
        /\ ~result.raised
        /\ result.verified <=> payment_manager.enable_fallback
        /\ result.verified => result.tx_hash \in GeneratedSoFar
        /\ ~payment_manager.enable_fallback => ~result.verified /\ result.error

\* The same without the origin of the tx_hash: it holds.
FallbackDecidesVerified ==
    \A i \in LiveFailedCalls :
        LET result == provider_results[i].result IN
        /\ ~result.raised
        /\ result.verified <=> payment_manager.enable_fallback
        /\ result.verified => result.tx_hash # None /\ ~result.error
        /\ ~payment_manager.enable_fallback => ~result.verified /\ result.error

\* The calls of PaymentManager.verify_payment the SDK answered, without
\* error, "not verified".
LiveRejectedCalls ==
    IF payment_manager.class # "PaymentManager"
       \/ ~UsesLiveVerification(payment_manager)
    THEN {}
    ELSE {i \in DOMAIN provider_results : provider_results[i].live.kind = "rejected"}

\* C20: a live "not verified" is returned as verified = false (with an
\* error, no tx_hash and nothing generated), with fallback enabled as with
\* fallback disabled.
C20_LiveRejectionStands ==
    \A i \in LiveRejectedCalls :
        LET result == provider_results[i].result IN
        /\ ~result.raised
        /\ ~result.verified
        /\ result.error
        /\ result.tx_hash = None

\* A live rejection has been returned by a provider with fallback enabled.
C20_Witness ==
    /\ payment_manager.enable_fallback
    /\ LiveRejectedCalls # {}
    /\ \E i \in LiveRejectedCalls : ~provider_results[i].result.verified

C22_QuoteRecipientDeterministic ==
    \A i, j \in DOMAIN provider_quotes :
        (/\ provider_quotes[i].station_id = provider_quotes[j].station_id
         /\ ~provider_quotes[i].quote.raised
         /\ ~provider_quotes[j].quote.raised)
        => /\ provider_quotes[i].quote.recipient = provider_quotes[j].quote.recipient
           /\ provider_quotes[i].quote.network = provider_quotes[j].quote.network

\* Two quotes of a PaymentManager for one station, with different amounts,
\* the first from the live path and the second from the fallback.
C22_Witness ==
    /\ payment_manager.class = "PaymentManager"
    /\ Len(provider_quotes) >= 2
    /\ provider_quotes[1].station_id = provider_quotes[2].station_id
    /\ provider_quotes[1].kwh_amount # provider_quotes[2].kwh_amount
    /\ ~provider_quotes[1].live_fails /\ ~provider_quotes[1].quote.raised
    /\ provider_quotes[2].live_fails /\ ~provider_quotes[2].quote.raised

\* C23: the activity log is append-only: in every step of every handler the
\* log before the step is a prefix of the log after it.
C23_LogAppendOnly ==
    [][/\ Len(agent_logs') >= Len(agent_logs)
       /\ SubSeq(agent_logs', 1, Len(agent_logs)) = agent_logs]_vars

\* A stop has just appended its entry to a log that already holds a session's
\* start and an agent's entry.
C23_Witness ==
    /\ response = Reply("stop_session", 200)
    /\ Len(agent_logs) >= 3
    /\ agent_logs[1].action = "session_start"
    /\ agent_logs[Len(agent_logs)].action = "session_stop"
    /\ \E i \in DOMAIN agent_logs : agent_logs[i].action \in AgentActions

\* The session is charging, asked for a positive amount, and the log holds n
\* entries.
ChargingAt(n) ==
    /\ ValidSession
    /\ active_session.status = "charging"
    /\ Len(agent_logs) = n

\* Something other than a poll acted on the session since the log held n
\* entries: a stop, another verification or a new start wrote entry n + 1.
OtherOperationSince(n) ==
    /\ Len(agent_logs) > n
    /\ agent_logs[n + 1].action # "session_complete"

\* C24: a charging session with a positive request that keeps being polled
\* becomes completed, unless another operation (stop, verify, start) acts on
\* it first; until then its time_elapsed is 60 s plus a whole number of
\* 300 s ticks and stays below 10800 s, so at most
\* (10800 - 60) / 300 + 1 polls are needed.
C24_PolledSessionCompletes ==
    /\ [](ChargingAt(Len(agent_logs))
           => /\ active_session.time_elapsed < FULL_CHARGE_SECONDS
              /\ (active_session.time_elapsed - INITIAL_SECONDS) % elapsed_increase = 0)
    /\ \A n \in 0 .. (MaxLog - 1) :
          ChargingAt(n) ~> ((ValidSession /\ active_session.status = "completed")
                            \/ OtherOperationSince(n))

\* The session has been polled from 60 s to the last tick before the target
\* and is still charging.
C24_Witness ==
    /\ ValidSession
    /\ active_session.status = "charging"
    /\ active_session.time_elapsed + elapsed_increase >= FULL_CHARGE_SECONDS
    /\ response = Reply("get_current_session", 200)

\* C25: a session is completed only when its energy_delivered has reached
\* the requested amount_kwh; a session stopped before that is in another
\* state (stopped), not completed. Stated for app.py, which keeps the stopped
\* session; energy is progress (in 1/1800) times amount_kwh.
C25_CompletedOnlyAtTarget ==
    \A session_id \in DOMAIN app_sessions :
        app_sessions[session_id].status = "completed"
        => /\ "energy_delivered" \in app_sessions[session_id].keys
           /\ app_sessions[session_id].energy_delivered
                 >= APP_CHARGE_SECONDS * app_sessions[session_id].amount_kwh

\* What holds instead: app.py stops a session from charging only, and both
\* the stop and the completing poll leave the status completed.
AppStopFromChargingOnly ==
    [][ \A session_id \in DOMAIN app_sessions :
          (stop_charging(session_id) /\ app_response' = Reply("stop_charging", 200))
          => /\ app_sessions[session_id].status = "charging"
             /\ app_sessions'[session_id].status = "completed" ]_vars

\* kwh_delivered recomputed from the stored time_elapsed alone:
\* min(kwh_total, kwh_total * time_elapsed / 10800), in 1/EnergyDen kWh.
Recomputed(session) ==
    LET by_time == (EnergyDen * session.kwh_total * session.time_elapsed)
                       \div FULL_CHARGE_SECONDS
    IN  IF Kwh(session.kwh_total) <= by_time THEN Kwh(session.kwh_total) ELSE by_time

\* C26: in every state where the session is charging, the stored
\* kwh_delivered equals the value recomputed from the stored time_elapsed.
C26_DeliveredIsRecomputed ==
    HasStatus("charging") => active_session.kwh_delivered = Recomputed(active_session)

\* The same for sessions with a positive request, where it holds in the
\* exact arithmetic of the model.
ValidDeliveredIsRecomputed ==
    (ValidSession /\ active_session.status = "charging")
    => active_session.kwh_delivered = Recomputed(active_session)

\* C27: a poll of a charging session that follows another poll of it, with
\* nothing in between (no time the session could have charged in), returns
\* the kwh_delivered and the current cost the earlier poll returned.
C27_RepeatedPollReturnsSame ==
    [][ (/\ HasStatus("charging")
         /\ response = Reply("get_current_session", 200)
         /\ last_poll # None
         /\ last_poll.seq = active_session.seq
         /\ get_current_session)
        => /\ active_session'.kwh_delivered = active_session.kwh_delivered
           /\ active_session'.currentAmount = active_session.currentAmount ]_vars

\* What holds instead: every poll of a charging session adds one tick, and
\* what it returns is determined by the time_elapsed it returns.
PollResultFollowsElapsed ==
    active_session # None =>
        /\ active_session.status = "charging"
              => /\ active_session.kwh_delivered * FULL_CHARGE_SECONDS
                       = Kwh(active_session.kwh_total) * active_session.time_elapsed
                 /\ active_session.currentAmount
                       = Round2(active_session.kwh_delivered, active_session.price)
        /\ active_session.status = "completed"
              => /\ active_session.time_elapsed = FULL_CHARGE_SECONDS
                 /\ active_session.kwh_delivered = Kwh(active_session.kwh_total)

\* C28: a poll of a session that is not charging (awaiting_payment or
\* completed) leaves the session (status, time_elapsed, kwh_delivered,
\* currentAmount and the rest), the activity log and the transactions as
\* they were.
C28_PollOfIdleSessionChangesNothing ==
    [][ (/\ active_session # None
         /\ active_session.status # "charging"
         /\ response'.op = "get_current_session")
        => UNCHANGED <<active_session, agent_logs, transactions>> ]_vars

\* A session that still awaits its payment has been polled.
C28_Witness ==
    /\ HasStatus("awaiting_payment")
    /\ response = Reply("get_current_session", 200)

\* The same for main.py's get_charging_status: a session that is not
\* charging is returned as stored.
MainPollOfIdleSessionChangesNothing ==
    [][ \A session_id \in DOMAIN main_sessions :
          (main_sessions[session_id].status # "charging"
           /\ get_charging_status(session_id))
          => UNCHANGED <<main_sessions, main_payment_history>> ]_vars

\* C29: handler bodies run atomically, so concurrent polls of one session
\* are a sequence of polls in some order. Every poll of a stored session
\* leaves kwh_delivered <= kwh_total when it was before, appends a
\* completion entry and a transaction only when it takes the session from
\* charging to completed, one of each, and never takes a completed session
\* back: in a run of polls the transition happens at most once.
C29_PollsCompleteAtMostOnce ==
    [][ (active_session # None /\ response'.op = "get_current_session")
        => /\ active_session' # None
           /\ active_session.kwh_delivered <= Kwh(active_session.kwh_total)
                 => active_session'.kwh_delivered <= Kwh(active_session'.kwh_total)
           /\ active_session.status = "completed"
                 => active_session'.status = "completed"
           /\ IF active_session.status = "charging"
                 /\ active_session'.status = "completed"
              THEN /\ agent_logs' = Append(agent_logs, agent_logs'[Len(agent_logs')])
                   /\ agent_logs'[Len(agent_logs')].action = "session_complete"
                   /\ transactions'
                        = Append(transactions, transactions'[Len(transactions')])
              ELSE UNCHANGED <<agent_logs, transactions>> ]_vars

\* Polls have taken a session with a positive request to completed, and the
\* log and the transactions hold one entry each for that completion.
C29_Witness ==
    /\ ValidSession
    /\ active_session.status = "completed"
    /\ Cardinality({i \in DOMAIN agent_logs :
            /\ agent_logs[i].action = "session_complete"
            /\ agent_logs[i].seq = active_session.seq}) = 1
    /\ Cardinality({i \in DOMAIN transactions :
            transactions[i].seq = active_session.seq}) = 1

\* C30: the transactions hold at most one record per session started (the
\* seeded records belong to none).
C30_OneRecordPerSession ==
    \A k \in 1 .. Started :
        Cardinality({i \in DOMAIN transactions : transactions[i].seq = k}) <= 1

\* The part that holds: a stop that directly follows a successful stop finds
\* no session and records nothing.
SecondStopRecordsNothing ==
    [][ (response = Reply("stop_session", 200) /\ response'.op = "stop_session")
        => /\ response'.status = 404
           /\ UNCHANGED <<transactions, agent_logs>> ]_vars

\* C31: a session is charging or completed only if a payment was verified
\* for it. Stated for main.py, whose sessions carry no tx_hash: a record of
\* payment_history names the session.
C31_ChargingOnlyAfterPayment ==
    \A session_id \in DOMAIN main_sessions :
        main_sessions[session_id].status \in {"charging", "completed"}
        => \E i \in DOMAIN main_payment_history :
              main_payment_history[i].session_id = session_id

\* The same for simple_main.py's settlement records: a session that left a
\* record (status completed) had a payment_verified entry in the log. It
\* fails too: stop_session settles a session that still awaits its payment.
SimpleSettledOnlyAfterPayment ==
    \A i \in DOMAIN transactions :
        transactions[i].seq > 0
        => \E j \in DOMAIN agent_logs :
              /\ agent_logs[j].action = "payment_verified"
              /\ agent_logs[j].seq = transactions[i].seq

\* What holds in simple_main.py: the stored session is charging or completed
\* only with a tx_hash.
SimpleChargingHasTxHash ==
    (HasStatus("charging") \/ HasStatus("completed"))
    => active_session.payment.tx_hash # None

\* The record a step appended to transactions.
Settled == transactions'[Len(transactions')]

\* C32: every settlement record appended for a session (by the completing
\* poll or by a stop) has amount = round(energy * price, 2) for the energy
\* in the same record and the session's price per kWh. Stated for sessions
\* with a positive request.
C32_RecordAmountMatchesEnergy ==
    [][ (ValidSession /\ Len(transactions') > Len(transactions))
        => Settled.amount = Round2(Settled.energy, active_session.price) ]_vars

\* The part that holds: the record of a stop that found the session
\* awaiting_payment or charging is consistent.
StopRecordAmountMatchesEnergy ==
    [][ (/\ active_session # None
         /\ active_session.status # "completed"
         /\ response'.op = "stop_session"
         /\ Len(transactions') > Len(transactions))
        => Settled.amount = Round2(Settled.energy, active_session.price) ]_vars

\* A request to main.py's start_charging is answered 200 in this step.
MainStarted ==
    /\ \E station_id \in MainRequestStationIds, amount_kwh \in MainRequestAmounts,
          payment_method \in PaymentMethods :
           start_charging(station_id, amount_kwh, payment_method)
    /\ main_response'.status = 200

\* C33: a start that is answered 200 stores its session under an id that no
\* stored session has, so every session stored before is stored unchanged
\* after; stated for main.py, two starts within one clock second included.
C33_StartGetsFreshId ==
    [][ MainStarted
        => /\ main_time \notin DOMAIN main_sessions
           /\ \A session_id \in DOMAIN main_sessions :
                 main_sessions'[session_id] = main_sessions[session_id] ]_vars

\* What holds: a start in a later clock second than every stored session's
\* gets an id of its own.
MainStartFreshAfterTick ==
    [][ (MainStarted /\ \A session_id \in DOMAIN main_sessions : session_id < main_time)
        => /\ DOMAIN main_sessions' = DOMAIN main_sessions \cup {main_time}
           /\ \A session_id \in DOMAIN main_sessions :
                 main_sessions'[session_id] = main_sessions[session_id] ]_vars

\* Entry i of the log is preceded by an entry with that action about the
\* same session.
PrecededBy(i, action) ==
    \E j \in 1 .. (i - 1) :
        /\ agent_logs[j].action = action
        /\ agent_logs[j].seq = agent_logs[i].seq

\* C34: every session_complete or session_stop entry of the log is preceded
\* by a session_start entry and by a payment_verified entry of the same
\* session.
C34_FinishedOnlyAfterPaid ==
    \A i \in DOMAIN agent_logs :
        agent_logs[i].action \in {"session_complete", "session_stop"}
        => PrecededBy(i, "session_start") /\ PrecededBy(i, "payment_verified")

\* The part that holds: every entry about a session is preceded by the
\* session's session_start, and a session_complete also by a
\* payment_verified.
CompletedOnlyAfterPaid ==
    \A i \in DOMAIN agent_logs :
        /\ agent_logs[i].action \in {"payment_verified", "session_complete", "session_stop"}
              => PrecededBy(i, "session_start")
        /\ agent_logs[i].action = "session_complete"
              => PrecededBy(i, "payment_verified")

\* The records app.py's payment_history holds for a session.
AppRecordsOf(session_id) ==
    {i \in DOMAIN app_payment_history : app_payment_history[i].session_id = session_id}

\* C35: app.py's payment_history holds at most one record per session.
C35_AppBilledOnce ==
    \A session_id \in DOMAIN app_sessions : Cardinality(AppRecordsOf(session_id)) <= 1

\* What holds: only the payment callback and the completing poll append, one
\* record each, and a stop appends none.
AppRecordsAppendedOneAtATime ==
    [][ /\ Len(app_payment_history') <= Len(app_payment_history) + 1
        /\ Len(app_payment_history') > Len(app_payment_history)
              => app_response'.op \in {"x402_payment_callback", "get_charging_session"}
      ]_vars

\* The flow has returned.
AgentDone == agent_pc = "done"

\* C36: full_charging_flow returns success = True only if the monitor saw
\* the session with status completed.
C36_SuccessOnlyIfCompleted ==
    (AgentDone /\ agent_result.success) => agent_observed = "completed"

\* The part that holds: a flow that ends before the monitor (no station, none
\* available, start or payment failed, an exception) returns success = False,
\* and one that reached the monitor returns success = True however the
\* monitor ended.
SuccessIffMonitored ==
    AgentDone => (agent_result.success <=> agent_polls > 0)

\* C37: select_best_station returns None exactly when the list holds no
\* available station; otherwise it returns an available station of the list
\* whose rate_crypto no available station of the list undercuts.
C37_SelectsCheapestAvailable ==
    agent_pc # "discover"
    => LET available == {i \in DOMAIN agent_stations : Available(agent_stations[i])}
       IN  /\ active_station = None <=> available = {}
           /\ active_station # None
                 => /\ \E i \in available : agent_stations[i] = active_station
                    /\ \A i \in available :
                          RateKey(active_station) <= RateKey(agent_stations[i])

\* The list held a cheaper station that is not available and several
\* available ones with different rates; one of the cheapest available was
\* selected.
C37_Witness ==
    /\ agent_pc # "discover"
    /\ active_station # None
    /\ \E i \in DOMAIN agent_stations :
          /\ ~Available(agent_stations[i])
          /\ RateKey(agent_stations[i]) < RateKey(active_station)
    /\ \E i \in DOMAIN agent_stations :
          /\ Available(agent_stations[i])
          /\ RateKey(agent_stations[i]) > RateKey(active_station)

====
